---- MODULE Spec2Model ----
(***************************************************************************)
(* The tag/view resolution engine of thing-list (config/core.js, latest    *)
(* revision): trimSlashes, regularViewMatchesTags, viewMatchesTags, the    *)
(* built-in rule tables, getInitiatedViewNames, getExistingTagNames and    *)
(* getAllViews.  Spec calls the matcher, SpecVault calls it again after    *)
(* the vault has changed, SpecCallerTable after the process-wide view      *)
(* table has changed, SpecViews enumerates the views, and SpecRevisions    *)
(* enumerates them with the getAllViews of the revision before as well.    *)
(* SpecTable is renderThingsTable: the inputs and buttons of the           *)
(* pagination, their event listeners, and the renderTable calls that wait  *)
(* at await dv.table(...) while further events arrive.                     *)
(*                                                                         *)
(* A JavaScript string is a sequence of one-character strings, so that     *)
(* slice, split, replace, startsWith and the default sort are computed,    *)
(* not assumed.  A rule table (an object whose values are functions) is a  *)
(* function from its keys to the name of a predicate; ViewRule and         *)
(* TagRule evaluate a predicate by its name.                               *)
(***************************************************************************)
EXTENDS Integers, Sequences, FiniteSets, TLC

VARIABLES
    ARCHIVE_NAME,   \* user.js: the configured name of the built-in archive tag
    CUSTOM_VIEWS,   \* user.js: the process-wide user custom-view table
    CUSTOM_TAGS,    \* user.js: the process-wide user custom-tag table
    vault,          \* the files of the vault, in the order the host lists them
    view_name,      \* argument of viewMatchesTags / regularViewMatchesTags
    tag_names,      \* argument: [isnull, isundefined, list]: null, undefined
                    \* or an array
    kwargs,         \* argument: the optional settings of the call
    op,             \* the function that has been called, "none" before the call
    ret,            \* what the call returned
    \* renderThingsTable: the local variables and elements its closures share
    dv_container,                   \* dv.container: the element Dataview renders into
    all_things,                     \* the things of the view, as last sorted
    sorting_select_value,           \* sorting_select.value
    things_per_page_input_value,    \* things_per_page_input.value
    page_selection_input_value,     \* page_selection_input.value
    page_selection_input_max,       \* page_selection_input.max
    page_count,
    previous_page_button_disabled,  \* previous_page_button.disabled
    next_page_button_disabled,      \* next_page_button.disabled
    table_container,                \* the children of table_container
    container,                      \* what Dataview has rendered into the original dv.container
    calls,                          \* the renderTable calls waiting at await dv.table(...)
    listening                       \* the event listeners have been added

tableVars ==
    <<dv_container, all_things, sorting_select_value, things_per_page_input_value,
      page_selection_input_value, page_selection_input_max, page_count,
      previous_page_button_disabled, next_page_button_disabled, table_container,
      container, calls, listening>>

vars ==
    <<ARCHIVE_NAME, CUSTOM_VIEWS, CUSTOM_TAGS, vault, view_name, tag_names, kwargs, op, ret,
      tableVars>>

\* renderThingsTable has not been called
NothingRendered ==
    /\ dv_container = "container"
    /\ all_things = <<>>
    /\ sorting_select_value = <<>>
    /\ things_per_page_input_value = 1
    /\ page_selection_input_value = 1
    /\ page_selection_input_max = 1
    /\ page_count = 1
    /\ previous_page_button_disabled = TRUE
    /\ next_page_button_disabled = TRUE
    /\ table_container = <<>>
    /\ container = <<>>
    /\ calls = <<>>
    /\ listening = FALSE

-----------------------------------------------------------------------------
(* JavaScript strings *)

\* The characters of the model in ascending UTF-16 code unit order.
CharOrder ==
    <<" ", ".", "/", "A", "O", "T", "U", "V",
      "a", "b", "c", "d", "e", "g", "h", "i", "l", "m", "n", "p", "r", "s",
      "t", "v", "w", "x">>

CharCode(c) == CHOOSE i \in 1..Len(CharOrder) : CharOrder[i] = c

SLASH == <<"/">>

Min(a, b) == IF a < b THEN a ELSE b

Max(a, b) == IF a > b THEN a ELSE b

\* String.prototype.slice(start, end): a negative index counts from the end.
slice(str, start, end) ==
    LET n == Len(str)
        s == IF start < 0 THEN Max(n + start, 0) ELSE Min(start, n)
        e == IF end < 0 THEN Max(n + end, 0) ELSE Min(end, n)
    IN  IF s < e THEN SubSeq(str, s + 1, e) ELSE <<>>

\* String.prototype.slice(start)
sliceFrom(str, start) == slice(str, start, Len(str))

startsWith(str, prefix) ==
    /\ Len(prefix) <= Len(str)
    /\ SubSeq(str, 1, Len(prefix)) = prefix

endsWith(str, suffix) ==
    /\ Len(suffix) <= Len(str)
    /\ SubSeq(str, Len(str) - Len(suffix) + 1, Len(str)) = suffix

\* String.prototype.includes for a one-character needle
includes(str, c) == \E i \in 1..Len(str) : str[i] = c

\* String.prototype.indexOf for a one-character needle, 1-based; 0 when absent
indexOf(str, c) ==
    IF includes(str, c)
    THEN CHOOSE i \in 1..Len(str) :
            /\ str[i] = c
            /\ \A j \in 1..(i - 1) : str[j] # c
    ELSE 0

\* String.prototype.split for a one-character separator
RECURSIVE split(_, _)
split(str, c) ==
    IF ~includes(str, c)
    THEN <<str>>
    ELSE LET i == indexOf(str, c)
         IN  <<SubSeq(str, 1, i - 1)>> \o split(SubSeq(str, i + 1, Len(str)), c)

\* String.prototype.replace(c, d) with a string pattern: the FIRST occurrence only
replace(str, c, d) ==
    IF ~includes(str, c)
    THEN str
    ELSE LET i == indexOf(str, c)
         IN  SubSeq(str, 1, i - 1) \o <<d>> \o SubSeq(str, i + 1, Len(str))

\* Array.prototype.join
RECURSIVE joinWith(_, _)
joinWith(segments, sep) ==
    IF Len(segments) = 0 THEN <<>>
    ELSE IF Len(segments) = 1 THEN segments[1]
    ELSE segments[1] \o sep \o joinWith(Tail(segments), sep)

\* Array.prototype.includes
arrayIncludes(array, x) == \E i \in 1..Len(array) : array[i] = x

\* a < b in the order of Array.prototype.sort() without a comparator
RECURSIVE strLess(_, _)
strLess(a, b) ==
    IF Len(b) = 0 THEN FALSE
    ELSE IF Len(a) = 0 THEN TRUE
    ELSE IF a[1] = b[1] THEN strLess(Tail(a), Tail(b))
    ELSE CharCode(a[1]) < CharCode(b[1])

RECURSIVE insertSorted(_, _)
insertSorted(x, sorted) ==
    IF Len(sorted) = 0 THEN <<x>>
    ELSE IF strLess(sorted[1], x)
         THEN <<sorted[1]>> \o insertSorted(x, Tail(sorted))
         ELSE <<x>> \o sorted

\* Array.prototype.sort() of an array of strings
RECURSIVE sort(_)
sort(array) ==
    IF Len(array) = 0 THEN <<>>
    ELSE insertSorted(array[1], sort(Tail(array)))

-----------------------------------------------------------------------------
(* user.js: names and paths *)

ALL_NAME == <<"A", "l", "l">>

UNTAGGED_NAME == <<"U", "n", "t", "a", "g", "g", "e", "d">>

OTHERS_NAME == <<"O", "t", "h", "e", "r", "s">>

\* the value of ARCHIVE_NAME that user.js ships with
ARCHIVE_NAME_DEFAULT == <<"A", "r", "c", "h", "i", "v", "e">>

VIEWS_PATH == <<"V", "i", "e", "w", "s">>

THINGS_PATH == <<"T", "h", "i", "n", "g", "s">>

CALCULATE_SUBFOLDER_UNINITIATED == TRUE

-----------------------------------------------------------------------------
(* core.js *)

\* trimSlashes without the test of the end of the string
trimSlashes_leadingOnly(str) ==
    IF startsWith(str, SLASH) THEN sliceFrom(str, 1) ELSE str

trimSlashes(str) ==
    LET s1 == IF startsWith(str, SLASH) THEN sliceFrom(str, 1) ELSE str
    IN  IF endsWith(s1, SLASH) THEN slice(s1, 0, -1) ELSE s1

\* viewMatchesTag asking the view and the tag to be of the same depth
viewMatchesTag_sameDepth(last_name, tag_name) ==
    LET view_name_split == split(last_name, " ")
        tag_name_split == split(tag_name, "/")
    IN  /\ Len(view_name_split) = Len(tag_name_split)
        /\ \A i \in 1..Len(view_name_split) :
                view_name_split[i] = tag_name_split[i]

\* the loop body of regularViewMatchesTags for one tag: does the view match it
viewMatchesTag(last_name, tag_name) ==
    IF includes(last_name, " ")
    THEN LET view_name_split == split(last_name, " ")
             tag_name_split == split(tag_name, "/")
         IN  /\ ~(Len(view_name_split) > Len(tag_name_split))
             /\ \A i \in 1..Len(view_name_split) :
                    view_name_split[i] = tag_name_split[i]
    ELSE split(tag_name, "/")[1] = last_name

\* regularViewMatchesTags matching the whole name, the folders included
regularViewMatchesTags_wholeName(name, tag_list) ==
    LET trimmed == trimSlashes(name)
    IN  \E i \in 1..Len(tag_list) : viewMatchesTag(trimmed, tag_list[i])

\* tag_list is an array here: the function does not accept null
regularViewMatchesTags(name, tag_list) ==
    LET trimmed == trimSlashes(name)
        split_view_name == split(trimmed, "/")
        last_name == split_view_name[Len(split_view_name)]
    IN  \E i \in 1..Len(tag_list) : viewMatchesTag(last_name, tag_list[i])

\* getInitiatedViewNames(views_path): app.metadataCache.getCachedFiles() are
\* the paths of the vault's files
RECURSIVE filterStartsWith(_, _)
filterStartsWith(paths, prefix) ==
    IF Len(paths) = 0 THEN <<>>
    ELSE IF startsWith(paths[1], prefix)
         THEN <<paths[1]>> \o filterStartsWith(Tail(paths), prefix)
         ELSE filterStartsWith(Tail(paths), prefix)

getCachedFiles == [i \in 1..Len(vault) |-> vault[i].path]

getInitiatedViewNames(views_path) ==
    LET trimmed == trimSlashes(views_path)
        view_paths == filterStartsWith(getCachedFiles, trimmed)
        views_path_length == Len(trimmed) + 1
    IN  [i \in 1..Len(view_paths) |-> slice(view_paths[i], views_path_length, -3)]

-----------------------------------------------------------------------------
(* rule tables: the predicates a table can hold, by name *)

\* the literal "Archive" of the built-in tag rule
ARCHIVE_LITERAL == <<"A", "r", "c", "h", "i", "v", "e">>

\* CORE_CUSTOM_TAGS[ARCHIVE_NAME] is "archive"; a user tag rule is one of
\* (_) => true, (_) => false, (view_name) => view_name === "a"
TagRule(f, name) ==
    CASE f = "archive" -> name = ARCHIVE_LITERAL
      [] f = "always" -> TRUE
      [] f = "never" -> FALSE
      [] f = "isA" -> name = <<"a">>

\* a user view rule is one of (_) => true, (_) => false,
\* (tag_names) => tag_names.includes("b"), (tag_names) => tag_names.length === 0
UserViewRule(f, tag_list) ==
    CASE f = "always" -> TRUE
      [] f = "never" -> FALSE
      [] f = "hasB" -> arrayIncludes(tag_list, <<"b">>)
      [] f = "noTags" -> Len(tag_list) = 0

CORE_CUSTOM_VIEWS ==
    [k \in {ALL_NAME, UNTAGGED_NAME, OTHERS_NAME} |->
        IF k = ALL_NAME THEN "all"
        ELSE IF k = UNTAGGED_NAME THEN "untagged" ELSE "others"]

CORE_CUSTOM_TAGS == [k \in {ARCHIVE_NAME} |-> "archive"]

\* CORE_CUSTOM_VIEWS[OTHERS_NAME]: reads the process-wide CUSTOM_VIEWS and the
\* view files under the default VIEWS_PATH
OthersRule(tag_list) ==
    LET core_custom_view_names == DOMAIN CORE_CUSTOM_VIEWS
        user_custom_view_names == DOMAIN CUSTOM_VIEWS
        initiated == getInitiatedViewNames(VIEWS_PATH)
    IN  ~ \E i \in 1..Len(initiated) :
            LET name == initiated[i]
            IN  /\ name \notin core_custom_view_names
                /\ \/ /\ name \in user_custom_view_names
                      /\ UserViewRule(CUSTOM_VIEWS[name], tag_list)
                   \/ regularViewMatchesTags(name, tag_list)

\* ViewRule with the All rule asking for at least one tag
ViewRule_allNeedsTags(f, tag_list) ==
    CASE f = "all" -> Len(tag_list) > 0
      [] f = "untagged" -> Len(tag_list) = 0
      [] f = "others" -> OthersRule(tag_list)
      [] OTHER -> UserViewRule(f, tag_list)

\* ViewRule with the Untagged rule comparing the length with 1
ViewRule_untaggedOffByOne(f, tag_list) ==
    CASE f = "all" -> TRUE
      [] f = "untagged" -> Len(tag_list) <= 1
      [] f = "others" -> OthersRule(tag_list)
      [] OTHER -> UserViewRule(f, tag_list)

\* the value of a rule of either view table on a tag list
ViewRule(f, tag_list) ==
    CASE f = "all" -> TRUE
      [] f = "untagged" -> Len(tag_list) = 0
      [] f = "others" -> OthersRule(tag_list)
      [] OTHER -> UserViewRule(f, tag_list)

\* an optional setting of kwargs that was not given
UNDEFINED == [defined |-> FALSE, value |-> <<>>]

Given(v) == [defined |-> TRUE, value |-> v]

\* the tag-rule pass looking at the first tag only
tagRulesReject_firstTagOnly(trimmed, tag_list, custom_tags) ==
    /\ Len(tag_list) > 0
    /\ LET tag_name == tag_list[1]
       IN  IF tag_name \in DOMAIN custom_tags
           THEN ~TagRule(custom_tags[tag_name], trimmed)
           ELSE IF tag_name \in DOMAIN CORE_CUSTOM_TAGS
                THEN ~TagRule(CORE_CUSTOM_TAGS[tag_name], trimmed)
                ELSE FALSE

\* the tag-rule pass evaluating the built-in rule of a tag beside the user's
tagRulesReject_bothTables(trimmed, tag_list, custom_tags) ==
    \E i \in 1..Len(tag_list) :
        LET tag_name == tag_list[i]
        IN  \/ /\ tag_name \in DOMAIN custom_tags
               /\ ~TagRule(custom_tags[tag_name], trimmed)
            \/ /\ tag_name \in DOMAIN CORE_CUSTOM_TAGS
               /\ ~TagRule(CORE_CUSTOM_TAGS[tag_name], trimmed)

\* the tag-rule pass of viewMatchesTags: some tag's rule rejects the view
tagRulesReject(trimmed, tag_list, custom_tags) ==
    \E i \in 1..Len(tag_list) :
        LET tag_name == tag_list[i]
        IN  IF tag_name \in DOMAIN custom_tags
            THEN ~TagRule(custom_tags[tag_name], trimmed)
            ELSE IF tag_name \in DOMAIN CORE_CUSTOM_TAGS
                 THEN ~TagRule(CORE_CUSTOM_TAGS[tag_name], trimmed)
                 ELSE FALSE

\* the while loop that unshifts the ever longer suffixes of the view name
RECURSIVE unshiftSuffixes(_, _)
unshiftSuffixes(view_name_split, matching) ==
    IF Len(view_name_split) = 0
    THEN matching
    ELSE unshiftSuffixes(
            SubSeq(view_name_split, 1, Len(view_name_split) - 1),
            <<view_name_split[Len(view_name_split)] \o SLASH \o matching[1]>>
                \o matching)

\* all variations of the view name that could match a custom view
matchingViewNames(trimmed) ==
    LET view_name_split == split(trimmed, "/")
        n == Len(view_name_split)
    IN  unshiftSuffixes(SubSeq(view_name_split, 1, n - 1),
                        <<view_name_split[n], SLASH \o trimmed>>)

\* firstCustomView taking the last variation that is a key
firstCustomView_lastHit(matching_view_names, custom_views) ==
    LET hits == {i \in 1..Len(matching_view_names) :
                    \/ matching_view_names[i] \in DOMAIN custom_views
                    \/ matching_view_names[i] \in DOMAIN CORE_CUSTOM_VIEWS}
    IN  IF hits = {} THEN 0
        ELSE CHOOSE i \in hits : \A j \in hits : i >= j

\* the first variation that is a key of a view table, 0 when none is
firstCustomView(matching_view_names, custom_views) ==
    LET hits == {i \in 1..Len(matching_view_names) :
                    \/ matching_view_names[i] \in DOMAIN custom_views
                    \/ matching_view_names[i] \in DOMAIN CORE_CUSTOM_VIEWS}
    IN  IF hits = {} THEN 0
        ELSE CHOOSE i \in hits : \A j \in hits : i <= j

\* tag_names === null
looseEqualsNull_strict(tags) == tags.isnull

\* tag_names == null: true of null and of undefined
looseEqualsNull(tags) == tags.isnull \/ tags.isundefined

\* the tags the loops of viewMatchesTags iterate: [] in place of null
normalizedTagNames(tags) ==
    IF looseEqualsNull(tags)
    THEN [isnull |-> FALSE, isundefined |-> FALSE, list |-> <<>>]
    ELSE tags

\* for...of accepts the value: an array, neither null nor undefined
iterable(tags) == ~tags.isnull /\ ~tags.isundefined

\* viewMatchesTags asking the regular matcher to agree with the view rule
viewMatchesTags_ruleAndRegular(name, tags, kw) ==
    LET custom_views == IF kw.custom_views.defined
                        THEN kw.custom_views.value ELSE CUSTOM_VIEWS
        custom_tags == IF kw.custom_tags.defined
                       THEN kw.custom_tags.value ELSE CUSTOM_TAGS
        tag_list == normalizedTagNames(tags).list
        trimmed == trimSlashes(name)
        matching_view_names == matchingViewNames(trimmed)
        hit == firstCustomView(matching_view_names, custom_views)
    IN  IF tagRulesReject(trimmed, tag_list, custom_tags) THEN FALSE
        ELSE IF hit # 0
             THEN /\ regularViewMatchesTags(trimmed, tag_list)
                  /\ IF matching_view_names[hit] \in DOMAIN custom_views
                     THEN ViewRule(custom_views[matching_view_names[hit]], tag_list)
                     ELSE ViewRule(CORE_CUSTOM_VIEWS[matching_view_names[hit]], tag_list)
             ELSE regularViewMatchesTags(trimmed, tag_list)

viewMatchesTags(name, tags, kw) ==
    LET custom_views == IF kw.custom_views.defined
                        THEN kw.custom_views.value ELSE CUSTOM_VIEWS
        custom_tags == IF kw.custom_tags.defined
                       THEN kw.custom_tags.value ELSE CUSTOM_TAGS
        tag_list == normalizedTagNames(tags).list
        trimmed == trimSlashes(name)
        matching_view_names == matchingViewNames(trimmed)
        hit == firstCustomView(matching_view_names, custom_views)
    IN  IF tagRulesReject(trimmed, tag_list, custom_tags) THEN FALSE
        ELSE IF hit # 0
             THEN IF matching_view_names[hit] \in DOMAIN custom_views
                  THEN ViewRule(custom_views[matching_view_names[hit]], tag_list)
                  ELSE ViewRule(CORE_CUSTOM_VIEWS[matching_view_names[hit]], tag_list)
             ELSE regularViewMatchesTags(trimmed, tag_list)

-----------------------------------------------------------------------------
(* core.js: the enumeration of the views *)

\* String.prototype.lastIndexOf for a one-character needle, 1-based; 0 when absent
lastIndexOf(str, c) ==
    IF includes(str, c)
    THEN CHOOSE i \in 1..Len(str) :
            /\ str[i] = c
            /\ \A j \in (i + 1)..Len(str) : str[j] # c
    ELSE 0

\* file.parent.path: the folder of the file, "/" for a file of the vault's root
parentPath(path) ==
    IF includes(path, "/") THEN SubSeq(path, 1, lastIndexOf(path, "/") - 1) ELSE SLASH

\* the frontmatter of the file has a non-empty tags array
hasTags(file) == ~file.tags.isnull /\ Len(file.tags.list) > 0

\* Set.prototype.add on a Set kept in insertion order
setAdd(set, x) == IF arrayIncludes(set, x) THEN set ELSE Append(set, x)

RECURSIVE setAddAll(_, _)
setAddAll(set, items) ==
    IF Len(items) = 0 THEN set
    ELSE setAddAll(setAdd(set, items[1]), Tail(items))

RECURSIVE flatten(_)
flatten(arrays) ==
    IF Len(arrays) = 0 THEN <<>>
    ELSE arrays[1] \o flatten(Tail(arrays))

\* array.map((name) => name.replace("/", " "))
mapReplaceSlash(array) == [i \in 1..Len(array) |-> replace(array[i], "/", " ")]

\* what tag_names.add(...frontmatter.tags) is given for a file: Set.add takes
\* ONE argument, the first tag of the spread array
addedByExistingTagNames(file) ==
    IF hasTags(file) THEN <<file.tags.list[1]>> ELSE <<>>

getExistingTagNames(things_path) ==
    LET trimmed == trimSlashes(things_path)
        isThing(file) == startsWith(file.path, trimmed)
        thing_files == SelectSeq(vault, isThing)
    IN  setAddAll(<<>>,
            flatten([i \in 1..Len(thing_files) |->
                        addedByExistingTagNames(thing_files[i])]))

\* the names one file of a subfolder gives: each tag once per level of the
\* subfolder path
subfolderTagNames(file, things_path_length) ==
    IF ~hasTags(file) THEN <<>>
    ELSE LET tags == mapReplaceSlash(file.tags.list)
             subfolders_array ==
                split(sliceFrom(parentPath(file.path), things_path_length), "/")
             full_subfolder(k) ==
                joinWith(SubSeq(subfolders_array, 1, k), SLASH) \o SLASH
         IN  flatten([k \in 1..Len(subfolders_array) |->
                        [j \in 1..Len(tags) |-> full_subfolder(k) \o tags[j]]])

\* the block of getAllViews under if (calculate_subfolder_uninitiated)
existingSubfolderTagNames(things_path) ==
    LET inSubfolder(file) == startsWith(parentPath(file.path), things_path \o SLASH)
        thing_subfolder_files == SelectSeq(vault, inSubfolder)
        things_path_length == Len(things_path) + 1
    IN  setAddAll(<<>>,
            flatten([i \in 1..Len(thing_subfolder_files) |->
                        subfolderTagNames(thing_subfolder_files[i], things_path_length)]))

\* Object.keys(table); the order of the keys is the order of insertion, which
\* getAllViews loses when it sorts its result
RECURSIVE keysOf(_)
keysOf(S) ==
    IF S = {} THEN <<>>
    ELSE LET least == CHOOSE x \in S : \A y \in S \ {x} : strLess(x, y)
         IN  <<least>> \o keysOf(S \ {least})

\* the nested loop that pushes every possible name that is new and not initiated
RECURSIVE pushUninitiated_ignoresInitiated(_, _, _)
pushUninitiated_ignoresInitiated(uninitiated, names, initiated) ==
    IF Len(names) = 0 THEN uninitiated
    ELSE pushUninitiated_ignoresInitiated(
            IF ~arrayIncludes(uninitiated, names[1])
            THEN Append(uninitiated, names[1]) ELSE uninitiated,
            Tail(names), initiated)

RECURSIVE pushUninitiated(_, _, _)
pushUninitiated(uninitiated, names, initiated) ==
    IF Len(names) = 0 THEN uninitiated
    ELSE pushUninitiated(
            IF /\ ~arrayIncludes(uninitiated, names[1])
               /\ ~arrayIncludes(initiated, names[1])
            THEN Append(uninitiated, names[1]) ELSE uninitiated,
            Tail(names), initiated)

\* kwargs.x when given, the default otherwise
Setting(option, default) == IF option.defined THEN option.value ELSE default

getAllViews(kw) ==
    LET calculate_subfolder_uninitiated ==
            Setting(kw.calculate_subfolder_uninitiated, CALCULATE_SUBFOLDER_UNINITIATED)
        views_path == trimSlashes(Setting(kw.views_path, VIEWS_PATH))
        things_path == trimSlashes(Setting(kw.things_path, THINGS_PATH))
        custom_views == Setting(kw.custom_views, CUSTOM_VIEWS)
        custom_tags == Setting(kw.custom_tags, CUSTOM_TAGS)
        initiated_view_names == sort(getInitiatedViewNames(views_path))
        existing_tag_names ==
            mapReplaceSlash(getExistingTagNames(things_path))
                \o (IF calculate_subfolder_uninitiated
                    THEN existingSubfolderTagNames(things_path) ELSE <<>>)
        possible_uninitiated_view_names ==
            existing_tag_names
                \o keysOf(DOMAIN custom_views)
                \o keysOf(DOMAIN CORE_CUSTOM_VIEWS)
                \o mapReplaceSlash(keysOf(DOMAIN custom_tags))
                \o mapReplaceSlash(keysOf(DOMAIN CORE_CUSTOM_TAGS))
    IN  [initiated |-> initiated_view_names,
         uninitiated |->
            sort(pushUninitiated(<<>>, possible_uninitiated_view_names,
                                 initiated_view_names))]

\* config/core.js, the revision before: the block under
\* if (calculate_subfolder_uninitiated) filters the files by views_path + "/"
existingSubfolderTagNames_coreJs(views_path, things_path) ==
    LET inSubfolder(file) == startsWith(parentPath(file.path), views_path \o SLASH)
        thing_subfolder_files == SelectSeq(vault, inSubfolder)
        things_path_length == Len(things_path) + 1
    IN  setAddAll(<<>>,
            flatten([i \in 1..Len(thing_subfolder_files) |->
                        subfolderTagNames(thing_subfolder_files[i], things_path_length)]))

\* config/core.js, the revision before: getAllViews, whose subfolder
\* derivation is on by default (the literal true)
getAllViews_coreJs(kw) ==
    LET calculate_subfolder_uninitiated ==
            Setting(kw.calculate_subfolder_uninitiated, TRUE)
        views_path == trimSlashes(Setting(kw.views_path, VIEWS_PATH))
        things_path == trimSlashes(Setting(kw.things_path, THINGS_PATH))
        custom_views == Setting(kw.custom_views, CUSTOM_VIEWS)
        custom_tags == Setting(kw.custom_tags, CUSTOM_TAGS)
        initiated_view_names == sort(getInitiatedViewNames(views_path))
        existing_tag_names ==
            mapReplaceSlash(getExistingTagNames(things_path))
                \o (IF calculate_subfolder_uninitiated
                    THEN existingSubfolderTagNames_coreJs(views_path, things_path)
                    ELSE <<>>)
        possible_uninitiated_view_names ==
            existing_tag_names
                \o keysOf(DOMAIN custom_views)
                \o keysOf(DOMAIN CORE_CUSTOM_VIEWS)
                \o mapReplaceSlash(keysOf(DOMAIN custom_tags))
                \o mapReplaceSlash(keysOf(DOMAIN CORE_CUSTOM_TAGS))
    IN  [initiated |-> initiated_view_names,
         uninitiated |->
            sort(pushUninitiated(<<>>, possible_uninitiated_view_names,
                                 initiated_view_names))]

-----------------------------------------------------------------------------
(* the inputs of the calls *)

MaxFolders == 2

MaxSegs == 3

MaxRuleSegs == 2

MaxViewFiles == 1

SeqsFromTo(S, lo, hi) == UNION {[1..k -> S] : k \in lo..hi}

FolderSegs == {<<>>, <<"a">>}

LeafSegs ==
    {<<>>, <<"a">>, <<"a", " ", "b">>,
     ALL_NAME, UNTAGGED_NAME, OTHERS_NAME, ARCHIVE_NAME_DEFAULT}

\* view names: up to MaxFolders folders (an empty one gives a doubled or a
\* leading "/") and a final segment (an empty one gives a trailing "/")
ViewNamesOf(leaves) ==
    {joinWith(folders \o <<leaf>>, SLASH) :
        folders \in SeqsFromTo(FolderSegs, 0, MaxFolders), leaf \in leaves}

ViewNames == ViewNamesOf(LeafSegs)

TagSegs == {<<"a">>, <<"b">>, ARCHIVE_NAME_DEFAULT}

\* the tags of d hierarchy levels
TagsOfDepth(d) == {joinWith(segments, SLASH) : segments \in [1..d -> TagSegs]}

\* the tag lists of at most n hierarchy levels in all
RECURSIVE TagLists(_)
TagLists(n) ==
    {<<>>} \cup
    UNION {{<<t>> \o rest : t \in TagsOfDepth(d), rest \in TagLists(n - d)} :
            d \in 1..n}

NULL == [isnull |-> TRUE, isundefined |-> FALSE, list |-> <<>>]

\* the argument tag_names left out, or given as undefined
UNDEFINED_TAGS == [isnull |-> FALSE, isundefined |-> TRUE, list |-> <<>>]

Array(list) == [isnull |-> FALSE, isundefined |-> FALSE, list |-> list]

TagArgs(n) == {Array(l) : l \in TagLists(n)} \cup {NULL, UNDEFINED_TAGS}

Tables(keys, rules) ==
    {<<>>} \cup UNION {[{k} -> rules] : k \in keys}

UserViewKeys == {<<"a">>, SLASH \o <<"a">>, <<"a", "/", "a">>, ALL_NAME}

UserViewTables == Tables(UserViewKeys, {"always", "never", "hasB"})

UserTagKeys == {<<"a">>, ARCHIVE_NAME_DEFAULT}

UserTagTables == Tables(UserTagKeys, {"always", "never", "isA"})

File(path, tags) == [path |-> path, tags |-> tags]

MD == <<".", "m", "d">>

\* files of views: in the views folder, in a subfolder of it, and in a folder
\* whose name only starts like the views folder
ViewFilePaths ==
    {VIEWS_PATH \o SLASH \o n \o MD :
        n \in {<<"a">>, <<"a", " ", "b">>, <<"a", "/", "a">>, ALL_NAME}}
    \cup {VIEWS_PATH \o <<"x">> \o SLASH \o <<"a">> \o MD}

ViewVaults ==
    {v \in SeqsFromTo({File(p, NULL) : p \in ViewFilePaths}, 0, MaxViewFiles) :
        \A i, j \in 1..Len(v) : i # j => v[i].path # v[j].path}

NoKwargs ==
    [calculate_subfolder_uninitiated |-> UNDEFINED,
     views_path |-> UNDEFINED,
     things_path |-> UNDEFINED,
     custom_views |-> UNDEFINED,
     custom_tags |-> UNDEFINED]

NoReturn == [threw |-> FALSE, value |-> FALSE]

Return(v) == [threw |-> FALSE, value |-> v]

Throw(e) == [threw |-> TRUE, value |-> e]

-----------------------------------------------------------------------------
(* the matcher is called on inputs of every shape *)

\* empty user tables and no view file: every view name, every tag list
InitPlain ==
    /\ ARCHIVE_NAME = ARCHIVE_NAME_DEFAULT
    /\ CUSTOM_VIEWS = <<>>
    /\ CUSTOM_TAGS = <<>>
    /\ kwargs = NoKwargs
    /\ vault = <<>>
    /\ view_name \in ViewNames
    /\ tag_names \in TagArgs(MaxSegs)

\* the pairs of user tables: every tag table beside no view rule and beside
\* one that accepts the view a, every view table beside no tag rule
RuleTables ==
    {<<views, tags>> :
        views \in {<<>>, [k \in {<<"a">>} |-> "always"]}, tags \in UserTagTables}
    \cup {<<views, <<>> >> : views \in UserViewTables}

\* process-wide user rules
InitRules ==
    /\ ARCHIVE_NAME = ARCHIVE_NAME_DEFAULT
    /\ vault = <<>>
    /\ kwargs = NoKwargs
    /\ view_name \in ViewNames
    /\ tag_names \in TagArgs(MaxRuleSegs)
    /\ \E tables \in RuleTables :
        /\ CUSTOM_VIEWS = tables[1]
        /\ CUSTOM_TAGS = tables[2]

\* user rules given in kwargs
InitKwargs ==
    /\ ARCHIVE_NAME = ARCHIVE_NAME_DEFAULT
    /\ vault = <<>>
    /\ CUSTOM_VIEWS = <<>>
    /\ CUSTOM_TAGS = <<>>
    /\ view_name \in ViewNamesOf({<<"a">>})
    /\ tag_names \in TagArgs(MaxRuleSegs)
    /\ \E tables \in RuleTables :
        kwargs = [NoKwargs EXCEPT !.custom_views = Given(tables[1]),
                                  !.custom_tags = Given(tables[2])]

\* the Others view, in the views folder and in a subfolder, with user custom
\* views and view files
InitOthers ==
    /\ ARCHIVE_NAME = ARCHIVE_NAME_DEFAULT
    /\ CUSTOM_VIEWS \in UserViewTables
    /\ CUSTOM_TAGS = <<>>
    /\ kwargs = NoKwargs
    /\ vault \in ViewVaults
    /\ view_name \in {OTHERS_NAME, <<"a", "/">> \o OTHERS_NAME}
    /\ tag_names \in TagArgs(MaxRuleSegs)

\* keys of user views that are variations of one another, and a built-in key
OrderKeys ==
    {<<"a">>, <<"/", "a">>, <<"a", "/", "a">>, <<"/", "a", "/", "a">>, ALL_NAME}

\* user tables of two keys whose rules differ
TwoKeyTables ==
    UNION {{[k \in {k1, k2} |-> IF k = k1 THEN "always" ELSE "never"] :
                k2 \in OrderKeys \ {k1}} : k1 \in OrderKeys}

\* several keys of the user table are variations of the view name
InitOrder ==
    /\ ARCHIVE_NAME = ARCHIVE_NAME_DEFAULT
    /\ CUSTOM_VIEWS \in TwoKeyTables
    /\ CUSTOM_TAGS = <<>>
    /\ kwargs = NoKwargs
    /\ vault = <<>>
    /\ view_name \in ViewNamesOf({<<"a">>, ALL_NAME})
    /\ tag_names \in TagArgs(1)

\* the names the user gives the built-in archive tag in place of "Archive"
RenamedArchiveNames == {<<"a">>}

\* user.js with ARCHIVE_NAME renamed, the user tables empty
InitRenamed ==
    /\ ARCHIVE_NAME \in RenamedArchiveNames
    /\ CUSTOM_VIEWS = <<>>
    /\ CUSTOM_TAGS = <<>>
    /\ kwargs = NoKwargs
    /\ vault = <<>>
    /\ view_name \in ViewNames
    /\ tag_names \in TagArgs(MaxRuleSegs)

Init ==
    /\ NothingRendered
    /\ op = "none"
    /\ ret = NoReturn
    /\ \/ InitPlain
       \/ InitRules
       \/ InitKwargs
       \/ InitOthers
       \/ InitRenamed
       \/ InitOrder

\* viewMatchesTags writing the empty array it works on back into the argument
CallViewMatchesTags_writesTagNames ==
    /\ op \in {"none", "vault changed", "tables changed"}
    /\ op' = "viewMatchesTags"
    /\ ret' = IF iterable(normalizedTagNames(tag_names))
              THEN Return(viewMatchesTags(view_name, tag_names, kwargs))
              ELSE Throw("TypeError")
    /\ tag_names' = normalizedTagNames(tag_names)
    /\ UNCHANGED <<tableVars, ARCHIVE_NAME, CUSTOM_VIEWS, CUSTOM_TAGS, vault, view_name, kwargs>>

\* the first call, or the same call once more after the vault or the
\* process-wide tables have changed;
\* for...of over a value that is not iterable throws a TypeError
CallViewMatchesTags ==
    /\ op \in {"none", "vault changed", "tables changed"}
    /\ op' = "viewMatchesTags"
    /\ ret' = IF iterable(normalizedTagNames(tag_names))
              THEN Return(viewMatchesTags(view_name, tag_names, kwargs))
              ELSE Throw("TypeError")
    /\ UNCHANGED <<tableVars, ARCHIVE_NAME, CUSTOM_VIEWS, CUSTOM_TAGS, vault, view_name, tag_names, kwargs>>

\* the view file the user creates or deletes between two calls
ChangedViewFile == File(VIEWS_PATH \o SLASH \o <<"a">> \o MD, NULL)

\* Array.prototype.filter((file) => file !== x)
without(array, x) == SelectSeq(array, LAMBDA file : file # x)

\* between two calls of viewMatchesTags the user creates the file of a view,
\* or deletes it: what app.metadataCache.getCachedFiles() lists changes
VaultChanges ==
    /\ op = "viewMatchesTags"
    /\ op' = "vault changed"
    /\ vault' = IF arrayIncludes(vault, ChangedViewFile)
                THEN without(vault, ChangedViewFile)
                ELSE Append(vault, ChangedViewFile)
    /\ UNCHANGED <<tableVars, ARCHIVE_NAME, CUSTOM_VIEWS, CUSTOM_TAGS, view_name, tag_names, kwargs, ret>>

\* for...of over null or undefined throws a TypeError
CallRegularViewMatchesTags ==
    /\ op = "none"
    /\ op' = "regularViewMatchesTags"
    /\ ret' = IF ~iterable(tag_names)
              THEN Throw("TypeError")
              ELSE Return(regularViewMatchesTags(view_name, tag_names.list))
    /\ UNCHANGED <<tableVars, ARCHIVE_NAME, CUSTOM_VIEWS, CUSTOM_TAGS, vault, view_name, tag_names, kwargs>>

CallTrimSlashes ==
    /\ op = "none"
    /\ op' = "trimSlashes"
    /\ ret' = Return(trimSlashes(view_name))
    /\ UNCHANGED <<tableVars, ARCHIVE_NAME, CUSTOM_VIEWS, CUSTOM_TAGS, vault, view_name, tag_names, kwargs>>

Next ==
    \/ CallViewMatchesTags
    \/ CallRegularViewMatchesTags
    \/ CallTrimSlashes

Spec == Init /\ [][Next]_vars

-----------------------------------------------------------------------------
(* the matcher is called again after the vault has changed *)

InitVault ==
    /\ NothingRendered
    /\ op = "none"
    /\ ret = NoReturn
    /\ \/ InitPlain
       \/ InitKwargs
       \/ InitOthers
       \/ InitRenamed
       \/ InitOrder

NextVault ==
    \/ CallViewMatchesTags
    \/ VaultChanges

SpecVault == InitVault /\ [][NextVault]_vars

-----------------------------------------------------------------------------
(* the Others view is asked for with the caller's own table of custom views *)

\* the process-wide tables of custom views: none, and the view a with a rule
\* that accepts and with one that rejects
ProcessWideViewTables ==
    {<<>>, [k \in {<<"a">>} |-> "always"], [k \in {<<"a">>} |-> "never"]}

InitCallerTable ==
    /\ NothingRendered
    /\ op = "none"
    /\ ret = NoReturn
    /\ ARCHIVE_NAME = ARCHIVE_NAME_DEFAULT
    /\ CUSTOM_VIEWS \in ProcessWideViewTables
    /\ CUSTOM_TAGS = <<>>
    /\ vault \in ViewVaults
    /\ view_name = OTHERS_NAME
    /\ tag_names \in TagArgs(MaxRuleSegs)
    /\ \E U \in UserViewTables :
        kwargs = [NoKwargs EXCEPT !.custom_views = Given(U)]

\* between two calls user.js is given another CUSTOM_VIEWS: the table the
\* Others rule reads by its global name
TablesChange ==
    /\ op = "viewMatchesTags"
    /\ op' = "tables changed"
    /\ CUSTOM_VIEWS' \in ProcessWideViewTables \ {CUSTOM_VIEWS}
    /\ UNCHANGED <<tableVars, ARCHIVE_NAME, CUSTOM_TAGS, vault, view_name, tag_names, kwargs, ret>>

NextCallerTable ==
    \/ CallViewMatchesTags
    \/ TablesChange

SpecCallerTable == InitCallerTable /\ [][NextCallerTable]_vars

-----------------------------------------------------------------------------
(* the views are enumerated in vaults of every shape *)

MaxFiles == 2

PY == <<".", "p", "y">>

PNG == <<".", "p", "n", "g">>

\* things in the root of the things folder, two folders below it, and in a
\* folder whose name only starts like the things folder
ThingPaths ==
    {THINGS_PATH \o SLASH \o <<"x">> \o MD,
     THINGS_PATH \o SLASH \o <<"s", "/", "t", "/", "x">> \o MD,
     THINGS_PATH \o <<"x">> \o SLASH \o <<"x">> \o MD}

\* no frontmatter, no tag, one tag, two tags, a tag of two and of three levels
ThingTags ==
    {NULL, Array(<<>>), Array(<<<<"a">>>>), Array(<<<<"b">>, <<"a">>>>),
     Array(<<<<"a", "/", "b">>>>), Array(<<<<"a", "/", "b", "/", "a">>>>)}

\* views: markdown files in the views folder and in a subfolder of it, files
\* with another extension, and a file of a folder that only starts like it
ViewPaths ==
    {VIEWS_PATH \o SLASH \o <<"a">> \o MD,
     VIEWS_PATH \o SLASH \o <<"a", " ", "b">> \o MD,
     VIEWS_PATH \o SLASH \o <<"s", "/", "a">> \o MD,
     VIEWS_PATH \o SLASH \o ALL_NAME \o MD,
     VIEWS_PATH \o SLASH \o <<"a">> \o PY,
     VIEWS_PATH \o SLASH \o <<"b">> \o PNG,
     VIEWS_PATH \o <<"x">> \o SLASH \o <<"a">> \o MD}

Files ==
    {File(p, t) : p \in ThingPaths, t \in ThingTags}
        \cup {File(p, NULL) : p \in ViewPaths}

\* the files of a vault have different paths
Vaults ==
    {v \in SeqsFromTo(Files, 0, MaxFiles) :
        \A i, j \in 1..Len(v) : i # j => v[i].path # v[j].path}

Options(values) == {UNDEFINED} \cup {Given(v) : v \in values}

EnumKwargs ==
    [calculate_subfolder_uninitiated : Options({FALSE}),
     views_path : Options({SLASH \o VIEWS_PATH \o SLASH}),
     things_path : Options({THINGS_PATH \o <<"/", "s">>}),
     custom_views : {UNDEFINED},
     custom_tags : {UNDEFINED}]

EnumViewTables ==
    {<<>>, [k \in {<<"a">>} |-> "always"], [k \in {<<"/", "a">>} |-> "always"]}

EnumTagTables == {<<>>, [k \in {<<"a", "/", "b", "/", "a">>} |-> "never"]}

InitViews ==
    /\ NothingRendered
    /\ ARCHIVE_NAME = ARCHIVE_NAME_DEFAULT
    /\ op = "none"
    /\ ret = NoReturn
    /\ view_name = <<>>
    /\ tag_names = NULL
    /\ CUSTOM_VIEWS \in EnumViewTables
    /\ CUSTOM_TAGS \in EnumTagTables
    /\ vault \in Vaults
    /\ kwargs \in EnumKwargs

CallGetAllViews ==
    /\ op = "none"
    /\ op' = "getAllViews"
    /\ ret' = Return(getAllViews(kwargs))
    /\ UNCHANGED <<tableVars, ARCHIVE_NAME, CUSTOM_VIEWS, CUSTOM_TAGS, vault, view_name, tag_names, kwargs>>

\* getAllViews of the revision before (config/core.js)
CallGetAllViews_coreJs ==
    /\ op = "none"
    /\ op' = "getAllViews (config/core.js)"
    /\ ret' = Return(getAllViews_coreJs(kwargs))
    /\ UNCHANGED <<tableVars, ARCHIVE_NAME, CUSTOM_VIEWS, CUSTOM_TAGS, vault, view_name, tag_names, kwargs>>

CallGetInitiatedViewNames ==
    /\ op = "none"
    /\ op' = "getInitiatedViewNames"
    /\ ret' = Return(getInitiatedViewNames(Setting(kwargs.views_path, VIEWS_PATH)))
    /\ UNCHANGED <<tableVars, ARCHIVE_NAME, CUSTOM_VIEWS, CUSTOM_TAGS, vault, view_name, tag_names, kwargs>>

CallGetExistingTagNames ==
    /\ op = "none"
    /\ op' = "getExistingTagNames"
    /\ ret' = Return(getExistingTagNames(Setting(kwargs.things_path, THINGS_PATH)))
    /\ UNCHANGED <<tableVars, ARCHIVE_NAME, CUSTOM_VIEWS, CUSTOM_TAGS, vault, view_name, tag_names, kwargs>>

NextViews ==
    \/ CallGetAllViews
    \/ CallGetInitiatedViewNames
    \/ CallGetExistingTagNames

SpecViews == InitViews /\ [][NextViews]_vars

-----------------------------------------------------------------------------
(* the views are enumerated by the two revisions of getAllViews *)

\* the files of the vaults, and a view file of a subfolder that has a tag of
\* its own
FilesOfRevisions ==
    Files \cup {File(VIEWS_PATH \o SLASH \o <<"s", "/", "a">> \o MD, Array(<<<<"a">>>>))}

VaultsOfRevisions ==
    {v \in SeqsFromTo(FilesOfRevisions, 0, MaxFiles) :
        \A i, j \in 1..Len(v) : i # j => v[i].path # v[j].path}

InitRevisions ==
    /\ NothingRendered
    /\ ARCHIVE_NAME = ARCHIVE_NAME_DEFAULT
    /\ op = "none"
    /\ ret = NoReturn
    /\ view_name = <<>>
    /\ tag_names = NULL
    /\ CUSTOM_VIEWS = <<>>
    /\ CUSTOM_TAGS = <<>>
    /\ vault \in VaultsOfRevisions
    /\ kwargs \in EnumKwargs

NextRevisions ==
    \/ CallGetAllViews
    \/ CallGetAllViews_coreJs

SpecRevisions == InitRevisions /\ [][NextRevisions]_vars

-----------------------------------------------------------------------------
(* renderThingsTable: the table of a view, its pagination and its sorting *)

\* the things of the vault, the most things a page can be set to show, the
\* renderTable calls that wait at once, and the tables Dataview has put
\* outside of table_container
MaxThings == 3

MaxPerPage == 2

MaxCalls == 2

MaxStray == 1

\* dv.current().file.path: the view file that holds the call
CurrentFilePath == VIEWS_PATH \o SLASH \o <<"a">> \o MD

\* dv.current().file.folder
CurrentFileFolder == parentPath(CurrentFilePath)

ThingNames == <<"a", "b", "c", "d", "e">>

\* a thing of the view and a thing of another view
TableThingTags == {Array(<<<<"a">>>>), Array(<<<<"b">>>>)}

\* the things folder holds up to MaxThings things
TableVaults ==
    UNION {{[i \in 1..k |-> File(THINGS_PATH \o SLASH \o <<ThingNames[i]>> \o MD, tags[i])] :
                tags \in [1..k -> TableThingTags]} : k \in 0..MaxThings}

\* the kwargs of renderThingsTable: things_per_page given, the rest left out
TableKwargs ==
    {[calculate_subfolder_uninitiated |-> UNDEFINED,
      views_path |-> UNDEFINED,
      things_path |-> UNDEFINED,
      custom_views |-> UNDEFINED,
      custom_tags |-> UNDEFINED,
      things_per_page |-> Given(n)] : n \in 1..MaxPerPage}

\* the table_sorts and the two suffixes of the call: one sort, by file name
ASCENDING_SUFFIX == <<" ", "a">>

DESCENDING_SUFFIX == <<" ", "d">>

TABLE_SORT_NAME == <<"N", "a", "m", "e">>

\* the options of sorting_select, in the order they are appended
SortingOptions == <<TABLE_SORT_NAME \o ASCENDING_SUFFIX, TABLE_SORT_NAME \o DESCENDING_SUFFIX>>

\* file.file.name
fileName(file) ==
    slice(file.path, lastIndexOf(file.path, "/"), -3)

\* table_sorts[sort_name](file)
table_sorts(sort_name, file) == fileName(file)

\* dv.pages('"folder"'): the files below the folder
pages(folder) ==
    SelectSeq(vault, LAMBDA file : startsWith(file.path, folder \o SLASH))

RECURSIVE insertByKey(_, _, _, _)
insertByKey(x, sorted, sort_name, descending) ==
    IF Len(sorted) = 0 THEN <<x>>
    ELSE LET before ==
                IF descending
                THEN ~strLess(table_sorts(sort_name, sorted[1]), table_sorts(sort_name, x))
                ELSE ~strLess(table_sorts(sort_name, x), table_sorts(sort_name, sorted[1]))
         IN  IF before
             THEN <<sorted[1]>> \o insertByKey(x, Tail(sorted), sort_name, descending)
             ELSE <<x>> \o sorted

\* DataArray.sort(key, direction): a stable sort by the key
RECURSIVE dvSort(_, _, _)
dvSort(array, sort_name, descending) ==
    IF Len(array) = 0 THEN <<>>
    ELSE insertByKey(array[Len(array)],
                     dvSort(SubSeq(array, 1, Len(array) - 1), sort_name, descending),
                     sort_name, descending)

\* Math.max(1, Math.ceil(all_things.length / things_per_page_input.value))
pageCount(length, per_page) == Max(1, (length + per_page - 1) \div per_page)

\* renderThingsTable was called with the things_per_page of kwargs, by a view
\* file of a vault
InitTable ==
    /\ NothingRendered
    /\ op = "none"
    /\ ret = NoReturn
    /\ ARCHIVE_NAME = ARCHIVE_NAME_DEFAULT
    /\ CUSTOM_VIEWS = <<>>
    /\ CUSTOM_TAGS = <<>>
    /\ view_name = <<>>
    /\ tag_names = NULL
    /\ vault \in TableVaults
    /\ kwargs \in TableKwargs

\* renderTable up to its await, with the values the inputs have once the
\* handler that calls it has set them
renderTable ==
    LET is_descending == endsWith(sorting_select_value', DESCENDING_SUFFIX)
        sort_name ==
            IF is_descending
            THEN slice(sorting_select_value', 0, -1 * Len(DESCENDING_SUFFIX))
            ELSE slice(sorting_select_value', 0, -1 * Len(ASCENDING_SUFFIX))
        sorted == dvSort(all_things, sort_name, is_descending)
        start_index == things_per_page_input_value' * (page_selection_input_value' - 1)
        end_index == things_per_page_input_value' * page_selection_input_value'
        things == slice(sorted, start_index, end_index)
    IN  /\ all_things' = sorted
        /\ table_container' = <<>>
        /\ dv_container' = "table_container"
        /\ calls' = Append(calls,
                        [real_dv_container |-> dv_container,
                         rendered |-> FALSE,
                         table |-> [rows |-> [i \in 1..Len(things) |-> things[i].path],
                                    sorting |-> sorting_select_value',
                                    things_per_page |-> things_per_page_input_value',
                                    page |-> page_selection_input_value']])
        /\ UNCHANGED container

\* renderThingsTable down to await renderTable(): the things of the view, the
\* inputs and the buttons, and the first renderTable call
CallRenderThingsTable ==
    /\ op = "none"
    /\ op' = "renderThingsTable"
    /\ LET things_path ==
               THINGS_PATH \o sliceFrom(CurrentFileFolder, Len(trimSlashes(VIEWS_PATH)))
           name == slice(CurrentFilePath, Len(trimSlashes(VIEWS_PATH)) + 1, -3)
           matcher_kwargs ==
               [NoKwargs EXCEPT !.custom_views = kwargs.custom_views,
                                !.custom_tags = kwargs.custom_tags]
           matching ==
               SelectSeq(pages(things_path),
                         LAMBDA file : viewMatchesTags(name, file.tags, matcher_kwargs))
           count == pageCount(Len(matching), kwargs.things_per_page.value)
       IN  /\ all_things' = dvSort(matching, TABLE_SORT_NAME, FALSE)
           /\ things_per_page_input_value' = kwargs.things_per_page.value
           /\ page_count' = count
           /\ page_selection_input_max' = count
           /\ next_page_button_disabled' = (count <= 1)
    /\ sorting_select_value' = SortingOptions[1]
    /\ page_selection_input_value' = 1
    /\ previous_page_button_disabled' = TRUE
    /\ table_container' = <<>>
    /\ dv_container' = "table_container"
    /\ calls' = <<[real_dv_container |-> dv_container,
                   rendered |-> FALSE,
                   table |-> [rows |-> [i \in 1..Len(slice(all_things', 0, things_per_page_input_value'))
                                           |-> slice(all_things', 0, things_per_page_input_value')[i].path],
                              sorting |-> sorting_select_value',
                              things_per_page |-> things_per_page_input_value',
                              page |-> page_selection_input_value']]>>
    /\ UNCHANGED <<container, listening>>
    /\ UNCHANGED <<ARCHIVE_NAME, CUSTOM_VIEWS, CUSTOM_TAGS, vault, view_name, tag_names, kwargs, ret>>

\* Array without its i-th element
removeAt(array, i) == SubSeq(array, 1, i - 1) \o SubSeq(array, i + 1, Len(array))

\* Dataview, while dv.table runs: the table of a call is appended to the
\* element dv.container is at that moment
DvTableRenders ==
    \E i \in 1..Len(calls) :
        /\ ~calls[i].rendered
        /\ calls' = [calls EXCEPT ![i].rendered = TRUE]
        /\ IF dv_container = "table_container"
           THEN /\ table_container' = Append(table_container, calls[i].table)
                /\ UNCHANGED container
           ELSE /\ container' = Append(container, calls[i].table)
                /\ UNCHANGED table_container
        /\ UNCHANGED <<dv_container, all_things, sorting_select_value,
                       things_per_page_input_value, page_selection_input_value,
                       page_selection_input_max, page_count, previous_page_button_disabled,
                       next_page_button_disabled, listening>>
        /\ UNCHANGED <<ARCHIVE_NAME, CUSTOM_VIEWS, CUSTOM_TAGS, vault, view_name, tag_names,
                       kwargs, op, ret>>

\* the promise of dv.table resolves and renderTable goes on after its await:
\* dv.container = real_dv_container; the first call returns to
\* renderThingsTable, which adds the event listeners
DvTableResolves ==
    \E i \in 1..Len(calls) :
        /\ calls[i].rendered
        /\ dv_container' = calls[i].real_dv_container
        /\ calls' = removeAt(calls, i)
        /\ listening' = TRUE
        /\ UNCHANGED <<all_things, sorting_select_value, things_per_page_input_value,
                       page_selection_input_value, page_selection_input_max, page_count,
                       previous_page_button_disabled, next_page_button_disabled,
                       table_container, container>>
        /\ UNCHANGED <<ARCHIVE_NAME, CUSTOM_VIEWS, CUSTOM_TAGS, vault, view_name, tag_names,
                       kwargs, op, ret>>

\* an event reaches its listener: the listeners are added, and the model
\* follows up to MaxCalls calls at once and MaxStray tables gone astray
EventFires ==
    /\ listening
    /\ Len(calls) < MaxCalls
    /\ Len(container) < MaxStray

\* the user sets the page number to a page of the table:
\* page_selection_input.addEventListener("change", renderTable)
ChangePageSelection ==
    /\ EventFires
    /\ \E value \in (1..page_count) \ {page_selection_input_value} :
            page_selection_input_value' = value
    /\ UNCHANGED <<sorting_select_value, things_per_page_input_value,
                   page_selection_input_max, page_count, previous_page_button_disabled,
                   next_page_button_disabled, listening>>
    /\ renderTable
    /\ UNCHANGED <<ARCHIVE_NAME, CUSTOM_VIEWS, CUSTOM_TAGS, vault, view_name, tag_names,
                   kwargs, op, ret>>

\* the user picks another option of sorting_select
ChangeSorting ==
    /\ EventFires
    /\ \E i \in 1..Len(SortingOptions) :
            /\ SortingOptions[i] # sorting_select_value
            /\ sorting_select_value' = SortingOptions[i]
    /\ page_selection_input_value' = 1
    /\ previous_page_button_disabled' = TRUE
    /\ next_page_button_disabled' = (page_count <= 1)
    /\ UNCHANGED <<things_per_page_input_value, page_selection_input_max, page_count,
                   listening>>
    /\ renderTable
    /\ UNCHANGED <<ARCHIVE_NAME, CUSTOM_VIEWS, CUSTOM_TAGS, vault, view_name, tag_names,
                   kwargs, op, ret>>

\* a click on previous_page_button; a disabled button gets no click
ClickPreviousPage ==
    /\ EventFires
    /\ ~previous_page_button_disabled
    /\ page_selection_input_value' = page_selection_input_value - 1
    /\ previous_page_button_disabled' = (page_selection_input_value' <= 1)
    /\ next_page_button_disabled' = FALSE
    /\ UNCHANGED <<sorting_select_value, things_per_page_input_value,
                   page_selection_input_max, page_count, listening>>
    /\ renderTable
    /\ UNCHANGED <<ARCHIVE_NAME, CUSTOM_VIEWS, CUSTOM_TAGS, vault, view_name, tag_names,
                   kwargs, op, ret>>

\* a click on next_page_button; a disabled button gets no click
ClickNextPage ==
    /\ EventFires
    /\ ~next_page_button_disabled
    /\ page_selection_input_value' = page_selection_input_value + 1
    /\ next_page_button_disabled' = (page_selection_input_value' >= page_count)
    /\ previous_page_button_disabled' = FALSE
    /\ UNCHANGED <<sorting_select_value, things_per_page_input_value,
                   page_selection_input_max, page_count, listening>>
    /\ renderTable
    /\ UNCHANGED <<ARCHIVE_NAME, CUSTOM_VIEWS, CUSTOM_TAGS, vault, view_name, tag_names,
                   kwargs, op, ret>>

\* the user sets things_per_page_input to another number, 1 at least
ChangeThingsPerPage ==
    /\ EventFires
    /\ \E value \in (1..MaxPerPage) \ {things_per_page_input_value} :
            things_per_page_input_value' = value
    /\ page_count' = pageCount(Len(all_things), things_per_page_input_value')
    /\ page_selection_input_max' = page_count'
    /\ IF page_selection_input_value >= page_count'
       THEN /\ page_selection_input_value' = page_count'
            /\ next_page_button_disabled' = TRUE
       ELSE /\ page_selection_input_value' = page_selection_input_value
            /\ next_page_button_disabled' = FALSE
    /\ UNCHANGED <<sorting_select_value, previous_page_button_disabled, listening>>
    /\ renderTable
    /\ UNCHANGED <<ARCHIVE_NAME, CUSTOM_VIEWS, CUSTOM_TAGS, vault, view_name, tag_names,
                   kwargs, op, ret>>

NextTable ==
    \/ CallRenderThingsTable
    \/ DvTableRenders
    \/ DvTableResolves
    \/ ChangePageSelection
    \/ ChangeSorting
    \/ ClickPreviousPage
    \/ ClickNextPage
    \/ ChangeThingsPerPage

SpecTable == InitTable /\ [][NextTable]_vars

-----------------------------------------------------------------------------
(* what the claims speak of *)

\* the tag list a call works on: null counts as the empty list
TagList == IF tag_names.isnull THEN <<>> ELSE tag_names.list

\* the user tables a viewMatchesTags call works with
UserViews == IF kwargs.custom_views.defined THEN kwargs.custom_views.value ELSE CUSTOM_VIEWS

UserTags == IF kwargs.custom_tags.defined THEN kwargs.custom_tags.value ELSE CUSTOM_TAGS

Matched == op = "viewMatchesTags"

HasArchiveTag == arrayIncludes(TagList, ARCHIVE_NAME)

\* some tag of the list has a rule, the user's before the built-in one, and
\* that rule is false for the trimmed view name
SomeTagRuleIsFalse ==
    \E i \in 1..Len(TagList) :
        LET t == TagList[i]
        IN  \/ /\ t \in DOMAIN UserTags
               /\ ~TagRule(UserTags[t], trimSlashes(view_name))
            \/ /\ t \notin DOMAIN UserTags
               /\ t \in DOMAIN CORE_CUSTOM_TAGS
               /\ ~TagRule(CORE_CUSTOM_TAGS[t], trimSlashes(view_name))

\* no tag of the list is a key of a custom-tag table
NoTagRule ==
    \A i \in 1..Len(TagList) :
        TagList[i] \notin (DOMAIN UserTags \cup DOMAIN CORE_CUSTOM_TAGS)

\* the suffixes of a name, from the whole name to its last path segment
Suffixes(name) ==
    LET segments == split(name, "/")
    IN  {joinWith(SubSeq(segments, i, Len(segments)), SLASH) : i \in 1..Len(segments)}

\* the name variants of a view name: the name, its path suffixes, "/" + name
Variants(name) == Suffixes(name) \cup {SLASH \o name}

\* no variant of the view name, as given or trimmed, is a key of a view table
NoViewRule ==
    (Variants(view_name) \cup Variants(trimSlashes(view_name)))
        \cap (DOMAIN UserViews \cup DOMAIN CORE_CUSTOM_VIEWS) = {}

\* C1 as stated: with empty user tables the All view matches every tag list.
C1_AllMatchesEveryTagList ==
    (Matched /\ view_name = ALL_NAME /\ UserViews = <<>> /\ UserTags = <<>>)
        => ret.value = TRUE

\* C1 amended: with empty user tables the All view matches every tag list
\* that does not contain the built-in Archive tag.
C1_AllMatchesUnlessArchived ==
    (Matched /\ view_name = ALL_NAME /\ UserViews = <<>> /\ UserTags = <<>>
        /\ ~HasArchiveTag)
        => ret.value = TRUE

C1_Witness ==
    /\ Matched /\ view_name = ALL_NAME /\ UserViews = <<>> /\ UserTags = <<>>
    /\ Len(TagList) = 2 /\ ~HasArchiveTag
    /\ ret.value = TRUE

\* C2: when the resolved rule of some tag (user table first, otherwise the
\* built-in table) is false for the trimmed view name, viewMatchesTags is
\* false, whatever a view rule or the regular matcher would say.
C2_FalseTagRuleRejects ==
    (Matched /\ SomeTagRuleIsFalse) => ret.value = FALSE

\* a user tag rule rejects a view that a user view rule and a later tag accept
C2_Witness ==
    /\ Matched /\ SomeTagRuleIsFalse
    /\ Len(TagList) = 2
    /\ TagList[1] \notin DOMAIN UserTags
    /\ TagList[2] \in DOMAIN UserTags
    /\ \E k \in Variants(trimSlashes(view_name)) \cap DOMAIN UserViews :
            UserViewRule(UserViews[k], TagList)
    /\ ret.value = FALSE

\* C3: with empty user tables the Untagged view matches exactly the empty tag
\* list, null counting as empty.
C3_UntaggedIffNoTags ==
    (Matched /\ view_name = UNTAGGED_NAME /\ UserViews = <<>> /\ UserTags = <<>>)
        => (ret.value = (tag_names.isnull \/ Len(tag_names.list) = 0))

C3_Witness ==
    /\ Matched /\ view_name = UNTAGGED_NAME /\ UserViews = <<>> /\ UserTags = <<>>
    /\ tag_names.isnull
    /\ ret.value = TRUE

\* C4: when no tag of the list is a key of a custom-tag table and no name
\* variant of the view name is a key of a custom-view table, viewMatchesTags
\* equals regularViewMatchesTags on the same view name and tag list.
C4_NoRuleMeansRegular ==
    (Matched /\ iterable(tag_names) /\ NoTagRule /\ NoViewRule)
        => ret.value = regularViewMatchesTags(view_name, tag_names.list)

\* the view files the Others rule looks at
Initiated == getInitiatedViewNames(VIEWS_PATH)

\* every file of the vault is a markdown file inside the views folder
OnlyViewFiles ==
    \A i \in 1..Len(vault) :
        /\ startsWith(vault[i].path, VIEWS_PATH \o SLASH)
        /\ endsWith(vault[i].path, MD)

\* the Others view is asked for, and no tag rule stands in the way
OthersDecided ==
    /\ Matched
    /\ OnlyViewFiles
    /\ view_name = OTHERS_NAME
    /\ UserViews = CUSTOM_VIEWS
    /\ OTHERS_NAME \notin DOMAIN CUSTOM_VIEWS
    /\ ~SomeTagRuleIsFalse

\* an initiated view claims the tag list: a user custom view by its own
\* predicate, any other view that is not built in by the regular matcher
Claims(name) ==
    /\ name \notin DOMAIN CORE_CUSTOM_VIEWS
    /\ IF name \in DOMAIN CUSTOM_VIEWS
       THEN UserViewRule(CUSTOM_VIEWS[name], TagList)
       ELSE regularViewMatchesTags(name, TagList)

\* C5: when the Others view is decided, an initiated view that is a user
\* custom view claims the thing only if its own predicate is true for the
\* tags: Others is false only if some initiated view claims the tags, a user
\* custom view whose predicate is false not being one.
C5_OthersAsksThePredicate ==
    (OthersDecided /\ ret.value = FALSE)
        => \E i \in 1..Len(Initiated) : Claims(Initiated[i])

\* C6: the Others view is false exactly when some initiated view that is not
\* built in matches the tags under viewMatchesTags.
C6_OthersIffNoViewMatches ==
    OthersDecided
        => (ret.value =
                ~ \E i \in 1..Len(Initiated) :
                    /\ Initiated[i] \notin DOMAIN CORE_CUSTOM_VIEWS
                    /\ viewMatchesTags(Initiated[i], tag_names, kwargs))

\* trimSlashes has been called on view_name
Trimmed == op = "trimSlashes"

\* C13: trimSlashes is idempotent: trimming its result changes nothing.
C13_TrimIsIdempotent ==
    Trimmed => trimSlashes(ret.value) = ret.value

\* the string without one leading "/" if it has one, and then without one
\* trailing "/" if what is left has one
OneSlashOffEachSide(x) ==
    LET rest == IF Len(x) > 0 /\ x[1] = "/" THEN Tail(x) ELSE x
    IN  IF Len(rest) > 0 /\ rest[Len(rest)] = "/"
        THEN SubSeq(rest, 1, Len(rest) - 1)
        ELSE rest

RegularMatched == op = "regularViewMatchesTags" /\ iterable(tag_names)

\* the final path segment of the view name, surrounding slashes trimmed
FinalSegment == sliceFrom(trimSlashes(view_name),
                          lastIndexOf(trimSlashes(view_name), "/"))

\* the tag has at least as many levels as the view has, and every level of
\* the view equals the level of the tag at the same position
TagCoversView(view, tag) ==
    LET view_segments == split(view, " ")
        tag_segments == split(tag, "/")
    IN  /\ Len(tag_segments) >= Len(view_segments)
        /\ \A i \in 1..Len(view_segments) : view_segments[i] = tag_segments[i]

\* C15: regularViewMatchesTags(V, T) is true exactly when some tag of T has
\* at least as many "/"-segments as the final path segment of V has
\* " "-segments and every view segment equals the tag segment at the same
\* position; it is false for the empty tag list and one matching tag is
\* enough.
C15_RegularIffSomeTagCovers ==
    RegularMatched
        => /\ ~ret.threw
           /\ ret.value = (\E i \in 1..Len(tag_names.list) :
                                TagCoversView(FinalSegment, tag_names.list[i]))

\* a nested view in a folder matches the second tag of the list
C15_Witness ==
    /\ RegularMatched
    /\ view_name = <<"a", "/", "a", " ", "b">>
    /\ tag_names.list = <<<<"b">>, <<"a", "/", "b">>>>
    /\ ret.value = TRUE

\* a step that is the call of viewMatchesTags
IsCallOfViewMatchesTags ==
    op \in {"none", "vault changed", "tables changed"} /\ op' = "viewMatchesTags"

\* the call leaves its arguments and the rule tables as they were
CallIsPure ==
    IsCallOfViewMatchesTags
        => UNCHANGED <<view_name, tag_names, kwargs, CUSTOM_VIEWS, CUSTOM_TAGS>>

\* the call after a change of the vault returns what the call before returned
SameResultInTheChangedVault ==
    (op = "vault changed" /\ op' = "viewMatchesTags") => ret' = ret

\* a name variant of the view name is the key of the built-in Others rule,
\* and the user table does not replace that rule
MayResolveToOthers ==
    /\ OTHERS_NAME \in Variants(trimSlashes(view_name))
    /\ OTHERS_NAME \notin DOMAIN UserViews

\* C16 as stated: viewMatchesTags is deterministic and pure: for fixed view
\* name, tag list and rule tables its result is the same in every state of
\* the vault, and it modifies neither its arguments nor the rule tables, for
\* every view name, the built-in Others view included.
C16_PureInEveryVault ==
    [][CallIsPure /\ SameResultInTheChangedVault]_vars

\* C16 amended: viewMatchesTags modifies neither its arguments nor the rule
\* tables, and its result is the same in every state of the vault for every
\* view name that does not resolve to the built-in Others rule.
C16_PureUnlessOthers ==
    [][/\ CallIsPure
       /\ ~MayResolveToOthers => SameResultInTheChangedVault]_vars

\* the view a has been matched again after its file was created
C16_Witness ==
    /\ Matched
    /\ view_name = <<"a">>
    /\ tag_names = Array(<<<<"a">>>>)
    /\ vault = <<ChangedViewFile>>
    /\ ret.value = TRUE

\* C17: for every view name V, viewMatchesTags(V, null) and
\* viewMatchesTags(V, undefined) complete without error and return what
\* viewMatchesTags(V, []) returns.
C17_NullAndUndefinedAsEmpty ==
    (Matched /\ (tag_names = NULL \/ tag_names = UNDEFINED_TAGS))
        => /\ ~ret.threw
           /\ ret.value = viewMatchesTags(view_name, Array(<<>>), kwargs)

\* the Untagged view matches when the tags are left out
C17_Witness ==
    /\ Matched
    /\ tag_names = UNDEFINED_TAGS
    /\ view_name = UNTAGGED_NAME
    /\ ~ret.threw
    /\ ret.value = TRUE

\* C18: for every configured value of ARCHIVE_NAME, a thing carrying the tag
\* ARCHIVE_NAME matches the view named ARCHIVE_NAME and no other view, the
\* ALL_NAME view included (user tables empty).
C18_ArchiveRuleFollowsTheName ==
    (Matched /\ UserViews = <<>> /\ UserTags = <<>> /\ HasArchiveTag)
        => ret.value = (trimSlashes(view_name) = ARCHIVE_NAME)

\* the name variants in the order of the search: the name, the name without
\* its first path segment, ..., its last path segment, "/" + name
OrderedVariants(name) ==
    LET segments == split(name, "/")
    IN  [i \in 1..Len(segments) |->
            joinWith(SubSeq(segments, i, Len(segments)), SLASH)]
        \o <<SLASH \o name>>

\* the positions of the variants that are a key of a custom-view table
KeyPositions ==
    LET variants == OrderedVariants(trimSlashes(view_name))
    IN  {i \in 1..Len(variants) :
            variants[i] \in DOMAIN UserViews \cup DOMAIN CORE_CUSTOM_VIEWS}

\* the first variant in the order that is a key
FirstKey ==
    LET positions == KeyPositions
    IN  OrderedVariants(trimSlashes(view_name))[
            CHOOSE i \in positions : \A j \in positions : i <= j]

\* C19: viewMatchesTags tests the variants of the trimmed view name in the
\* order [V, V without its first path segment, ..., last path segment,
\* "/" + V] and uses the first one that is a key of the user or the built-in
\* custom-view table, the user entry when it is a key of both.
C19_FirstVariantInOrder ==
    (Matched /\ ~SomeTagRuleIsFalse /\ KeyPositions # {})
        => ret.value =
            IF FirstKey \in DOMAIN UserViews
            THEN UserViewRule(UserViews[FirstKey], TagList)
            ELSE ViewRule(CORE_CUSTOM_VIEWS[FirstKey], TagList)

\* the whole name and its last segment are both keys: the rule of the whole
\* name, which is first in the order, decides
C19_Witness ==
    /\ Matched
    /\ view_name = <<"a", "/", "a">>
    /\ DOMAIN UserViews = {<<"a">>, <<"a", "/", "a">>}
    /\ UserViews[<<"a", "/", "a">>] = "never"
    /\ UserViews[<<"a">>] = "always"
    /\ ret.value = FALSE

\* the key of a custom view starts with the separator: the view is anchored
Anchored(key) == Len(key) > 0 /\ key[1] = "/"

\* the user table without the anchored keys "/P" whose P is not the trimmed
\* view name: the entries that may be applied to the view
UserViewsOfThisLocation ==
    [key \in {k \in DOMAIN UserViews :
                Anchored(k) => Tail(k) = trimSlashes(view_name)}
        |-> UserViews[key]]

\* C20: a custom view registered under the anchored key "/P" is applied to
\* the view name V only when the trimmed V equals P: for every view name, the
\* names with empty path segments included, the result is the result with
\* the anchored keys of other locations taken out of the user table.
C20_AnchoredOnlyAtItsLocation ==
    Matched
        => ret.value =
            viewMatchesTags(view_name, tag_names,
                [kwargs EXCEPT !.custom_views = Given(UserViewsOfThisLocation)])

\* the value on the tags of the view rule that the search finds
FoundRuleValue ==
    IF FirstKey \in DOMAIN UserViews
    THEN UserViewRule(UserViews[FirstKey], TagList)
    ELSE ViewRule(CORE_CUSTOM_VIEWS[FirstKey], TagList)

\* what the regular matcher says of the view name and the tags
RegularSays == regularViewMatchesTags(trimSlashes(view_name), TagList)

\* C21: when the tag-rule pass does not reject and a custom or built-in view
\* rule is found for a variant of V, viewMatchesTags returns that rule's
\* value on T; where the regular matcher says otherwise, the result is not
\* what the regular matcher says.
C21_RuleReplacesRegular ==
    (Matched /\ ~SomeTagRuleIsFalse /\ KeyPositions # {})
        => LET found == FoundRuleValue
               regular == RegularSays
           IN  /\ ret.value = found
               /\ regular # found => ret.value # regular

\* the regular matcher accepts the tag a for the view a, the user rule of
\* the view says no, and the call says no
C21_Witness ==
    /\ Matched
    /\ view_name = <<"a">>
    /\ TagList = <<<<"a">>>>
    /\ UserViews = [k \in {<<"a">>} |-> "never"]
    /\ UserTags = <<>>
    /\ RegularSays
    /\ ret.value = FALSE

\* the rule that decides for a tag: the user's when the tag is a key of the
\* user table, otherwise the built-in one, none when it is a key of neither
TagAllowsView(tag) ==
    IF tag \in DOMAIN UserTags
    THEN TagRule(UserTags[tag], trimSlashes(view_name))
    ELSE IF tag \in DOMAIN CORE_CUSTOM_TAGS
         THEN TagRule(CORE_CUSTOM_TAGS[tag], trimSlashes(view_name))
         ELSE TRUE

\* C22: for each tag the user custom-tag table is consulted first: the user
\* rule alone decides for a tag that is a key of the user table, the built-in
\* rule only for a tag absent from it, and a tag that is a key of neither
\* table restricts nothing: the call is true exactly when every tag allows
\* the view and the view rule, or the regular matcher, accepts the tags.
C22_UserTagRuleFirst ==
    Matched
        => ret.value =
            (/\ \A i \in 1..Len(TagList) : TagAllowsView(TagList[i])
             /\ IF KeyPositions # {} THEN FoundRuleValue ELSE RegularSays)

\* the user rule of the Archive tag allows every view: the All view shows a
\* thing that the built-in rule of the tag would hide
C22_Witness ==
    /\ Matched
    /\ view_name = ALL_NAME
    /\ HasArchiveTag
    /\ ARCHIVE_NAME \in DOMAIN UserTags
    /\ UserTags[ARCHIVE_NAME] = "always"
    /\ ~TagRule(CORE_CUSTOM_TAGS[ARCHIVE_NAME], trimSlashes(view_name))
    /\ ret.value = TRUE

\* what follows the last "/" of the view name as it is given
LastSegment == sliceFrom(view_name, lastIndexOf(view_name, "/"))

C24_OthersFromTheCallersTable ==
    [][(/\ op = "tables changed"
        /\ op' = "viewMatchesTags"
        /\ view_name = OTHERS_NAME
        /\ kwargs.custom_views.defined)
            => ret' = ret]_vars

\* C26: with the default names and empty user tables, a thing carrying the
\* built-in Archive tag is matched by every Archive view, wherever its file
\* is: viewMatchesTags(V, T) is true for every V whose final path segment is
\* "Archive" when T contains the tag Archive.
C26_ArchiveViewInAnyFolder ==
    (/\ Matched
     /\ ARCHIVE_NAME = ARCHIVE_NAME_DEFAULT
     /\ UserViews = <<>> /\ UserTags = <<>>
     /\ HasArchiveTag
     /\ FinalSegment = ARCHIVE_NAME)
        => ret.value = TRUE

-----------------------------------------------------------------------------
(* what the claims on the enumeration speak of *)

Enumerated == op = "getAllViews"

\* the things folder and the views folder of the call
ThingsRoot == trimSlashes(Setting(kwargs.things_path, THINGS_PATH))

ViewsRoot == trimSlashes(Setting(kwargs.views_path, VIEWS_PATH))

\* every "/" of a tag replaced by " "
RECURSIVE AsViewName(_)
AsViewName(tag) ==
    IF Len(tag) = 0 THEN <<>>
    ELSE <<IF tag[1] = "/" THEN " " ELSE tag[1]>> \o AsViewName(Tail(tag))

Elements(array) == {array[i] : i \in 1..Len(array)}

\* the files in the folder root, at any depth
FilesUnder(root) ==
    {vault[i] : i \in {j \in 1..Len(vault) : startsWith(vault[j].path, root \o SLASH)}}

\* C7: getAllViews never lists a name both as initiated and as uninitiated.
C7_InitiatedNotUninitiated ==
    Enumerated
        => Elements(ret.value.initiated) \cap Elements(ret.value.uninitiated) = {}

\* a name that a tag, a view key or a tag key offers is left out of the
\* uninitiated list because its view file exists
C7_Witness ==
    /\ Enumerated
    /\ <<"a">> \in Elements(ret.value.initiated)
    /\ \E f \in FilesUnder(ThingsRoot) : hasTags(f) /\ f.tags.list[1] = <<"a">>
    /\ Len(ret.value.uninitiated) > 0

\* C8: every tag of every thing file under the things root is, with its
\* separators converted, in the uninitiated list unless it is in the
\* initiated list.  Converted is read generously: every "/" replaced, or the
\* first one only as name.replace("/", " ") does.
C8_EveryTagOfEveryThing ==
    Enumerated
        => \A f \in FilesUnder(ThingsRoot) :
            ~f.tags.isnull =>
                \A i \in 1..Len(f.tags.list) :
                    {AsViewName(f.tags.list[i]), replace(f.tags.list[i], "/", " ")}
                        \cap (Elements(ret.value.uninitiated)
                                \cup Elements(ret.value.initiated)) # {}

\* C9: no name that getAllViews derives from a tag keeps a "/" of the tag:
\* without subfolder derivation, every uninitiated name that is not a key
\* of a custom-view table comes from a tag and holds no "/".
C9_NoSlashFromATag ==
    (Enumerated /\ ~Setting(kwargs.calculate_subfolder_uninitiated,
                            CALCULATE_SUBFOLDER_UNINITIATED))
        => \A n \in Elements(ret.value.uninitiated) :
                n \notin (DOMAIN Setting(kwargs.custom_views, CUSTOM_VIEWS)
                            \cup DOMAIN CORE_CUSTOM_VIEWS)
                    => ~includes(n, "/")

\* the path without its extension: what precedes the last "." of the file name
WithoutExtension(path) ==
    IF lastIndexOf(path, ".") > lastIndexOf(path, "/")
    THEN SubSeq(path, 1, lastIndexOf(path, ".") - 1)
    ELSE path

\* C10: getInitiatedViewNames(views_path) returns exactly the files inside
\* the folder views_path, each as its path relative to the folder without
\* the file extension; stated here for vaults of markdown files only.
C10_ExactlyTheViewFiles ==
    (op = "getInitiatedViewNames"
        /\ \A i \in 1..Len(vault) : endsWith(vault[i].path, MD))
        => Elements(ret.value) =
            {sliceFrom(WithoutExtension(f.path), Len(ViewsRoot) + 1) :
                f \in FilesUnder(ViewsRoot)}

\* the array is in ascending order of Array.prototype.sort() (equal neighbours
\* allowed)
Sorted(array) ==
    \A i \in 1..(Len(array) - 1) : ~strLess(array[i + 1], array[i])

\* the array does not hold the same name twice
NoDuplicates(array) ==
    \A i, j \in 1..Len(array) : i # j => array[i] # array[j]

\* C11: both lists returned by getAllViews are sorted in ascending order and
\* neither list holds the same name twice, for every vault content.
C11_SortedAndDeduplicated ==
    Enumerated
        => /\ Sorted(ret.value.initiated)
           /\ Sorted(ret.value.uninitiated)
           /\ NoDuplicates(ret.value.initiated)
           /\ NoDuplicates(ret.value.uninitiated)

\* getAllViews has been called, in either revision that derives names from
\* the subfolders
EnumeratedInARevision == op \in {"getAllViews", "getAllViews (config/core.js)"}

SubfolderDerivation ==
    Setting(kwargs.calculate_subfolder_uninitiated, CALCULATE_SUBFOLDER_UNINITIATED)

\* the file is inside a subfolder of the things root
InSubfolderOfThings(file) == startsWith(parentPath(file.path), ThingsRoot \o SLASH)

\* the prefixes of the subfolder path of a thing: a and a/b for a thing in a/b
SubfolderLevels(file) ==
    LET segments == split(sliceFrom(parentPath(file.path), Len(ThingsRoot) + 1), "/")
    IN  {joinWith(SubSeq(segments, 1, k), SLASH) : k \in 1..Len(segments)}

TagsOf(file) == IF file.tags.isnull THEN {} ELSE Elements(file.tags.list)

\* a tag as a view name, read generously: every "/" replaced, or the first
Converted(tag) == {AsViewName(tag), replace(tag, "/", " ")}

\* the names a thing of a subfolder is to give: each tag at each level
SubfolderCandidates(file) ==
    {level \o SLASH \o name :
        level \in SubfolderLevels(file),
        name \in UNION {Converted(tag) : tag \in TagsOf(file)}}

\* the names that do not come from the subfolders: the tags of the files and
\* the keys of the rule tables
FlatCandidates ==
    UNION {Converted(tag) : tag \in UNION {TagsOf(file) : file \in Elements(vault)}}
        \cup DOMAIN Setting(kwargs.custom_views, CUSTOM_VIEWS)
        \cup DOMAIN CORE_CUSTOM_VIEWS
        \cup UNION {Converted(tag) : tag \in DOMAIN Setting(kwargs.custom_tags, CUSTOM_TAGS)}
        \cup DOMAIN CORE_CUSTOM_TAGS

\* C12: in every revision of getAllViews that derives names from the
\* subfolders, with the option on, a tag x of a thing in the subfolder a/b of
\* the things root gives the candidates a/x and a/b/x (listed as uninitiated
\* unless initiated), and only things inside subfolders of the things root
\* give such candidates.
C12_SubfolderCandidates ==
    (EnumeratedInARevision /\ SubfolderDerivation)
        => /\ \A file \in Elements(vault) :
                (InSubfolderOfThings(file) /\ TagsOf(file) # {})
                    => \A level \in SubfolderLevels(file), tag \in TagsOf(file) :
                        \E name \in Converted(tag) :
                            level \o SLASH \o name
                                \in Elements(ret.value.uninitiated)
                                        \cup Elements(ret.value.initiated)
           /\ \A name \in Elements(ret.value.uninitiated) :
                \/ name \in FlatCandidates
                \/ \E file \in Elements(vault) :
                        /\ InSubfolderOfThings(file)
                        /\ name \in SubfolderCandidates(file)

\* C25: for every key K of the custom-view table, floating or anchored with a
\* leading "/", if the view file of K exists, that is trimSlashes(K) is in
\* the initiated list of getAllViews, then K is not in the uninitiated list.
C25_KeyWithAFileIsNotUninitiated ==
    Enumerated
        => \A K \in DOMAIN Setting(kwargs.custom_views, CUSTOM_VIEWS) :
                trimSlashes(K) \in Elements(ret.value.initiated)
                    => K \notin Elements(ret.value.uninitiated)

-----------------------------------------------------------------------------
(* what the claims on the table speak of *)

\* renderThingsTable has built its elements
Built == op = "renderThingsTable"

\* every renderTable call that was started has completed
AllCallsCompleted == Built /\ listening /\ calls = <<>>

\* the table renderTable builds from what the inputs say now
TableOfTheInputs ==
    LET is_descending == endsWith(sorting_select_value, DESCENDING_SUFFIX)
        sorted == dvSort(all_things, TABLE_SORT_NAME, is_descending)
        things == slice(sorted,
                        things_per_page_input_value * (page_selection_input_value - 1),
                        things_per_page_input_value * page_selection_input_value)
    IN  [rows |-> [i \in 1..Len(things) |-> things[i].path],
         sorting |-> sorting_select_value,
         things_per_page |-> things_per_page_input_value,
         page |-> page_selection_input_value]

\* C27: after any sequence of UI events the current page number p satisfies
\* 1 <= p <= page_count, where page_count = max(1, ceil(number of matching
\* things / things per page)).
C27_PageWithinThePages ==
    Built =>
        /\ page_count = pageCount(Len(all_things), things_per_page_input_value)
        /\ 1 <= page_selection_input_value
        /\ page_selection_input_value <= page_count

\* C28: after every UI event handler has run, the previous-page button is
\* disabled exactly when the current page is 1 and the next-page button is
\* disabled exactly when the current page equals page_count.
C28_ButtonsFollowThePage ==
    Built =>
        /\ previous_page_button_disabled <=> (page_selection_input_value = 1)
        /\ next_page_button_disabled <=> (page_selection_input_value = page_count)

\* C29: once every started renderTable call has completed, dv.container is
\* again the original container, however the calls overlapped.
C29_ContainerRestored ==
    AllCallsCompleted => dv_container = "container"

\* C30: once every started renderTable call has completed, table_container
\* holds exactly one table and it shows the page, sort order and page size
\* selected by the most recent UI event, however the calls overlapped.
C30_OneTableOfTheLastEvent ==
    AllCallsCompleted => table_container = <<TableOfTheInputs>>

====
